---- MODULE Spec2Model ----
(***************************************************************************)
(* TDMS2MAT, src/descomprimir_concatenar_mat.py.                           *)
(*                                                                         *)
(* Four parts of the script are modelled.                                  *)
(*                                                                         *)
(*  - The day aggregation, ordenar_y_agrupado_por_dia, over two folders:   *)
(*    input_folder (its .csv files) and temp_folder, the folder temp       *)
(*    beside the script, where the records of unfinished days are kept.    *)
(*    A run is one action.  Between runs new tables arrive in the folder   *)
(*    (NuevaTabla) and the folder may be wiped, as main does after every   *)
(*    run (LimpiarCarpeta); a caller of the function on a folder that is   *)
(*    kept runs it again on what the previous run left.                    *)
(*                                                                         *)
(*  - The conversion stage, procesar_archivos_tdms_paralelo, with one      *)
(*    position per submitted convertir_tdms_a_csv task (SpecConv).         *)
(*                                                                         *)
(*  - main, one execution after the other, each a sequence of steps from   *)
(*    the selection of the archives to the removal of the working folder   *)
(*    (SpecMain).  Its aggregation step is ordenar_y_agrupado_por_dia on   *)
(*    the working folder.                                                  *)
(*                                                                         *)
(*  - The file names derived from a date (SpecNombres).                    *)
(*                                                                         *)
(* A row is identified by its value in the Time column, in milliseconds;   *)
(* the other columns are carried along unchanged by every operation of the *)
(* aggregation and are never inspected by it.                              *)
(***************************************************************************)
EXTENDS Integers, Sequences, FiniteSets, TLC

\* Bounds of the model.
MaxDay == 2
MaxFilas == 2
MaxTablas == 2
MaxRuns == 2
\* chunksize of pd.read_csv (10000 in the source), scaled to the tables above.
ChunkSize == 2

Days == 1..MaxDay

\* Milliseconds since midnight of h:m:s.f
Ms(h, m, s, f) == ((h * 60 + m) * 60 + s) * 1000 + f
MsPerDay == Ms(24, 0, 0, 0)

\* The times of day the input rows are drawn from.
TimesOfDay == {Ms(10, 0, 0, 0), Ms(23, 59, 58, 999), Ms(23, 59, 59, 0)}
Times == {d * MsPerDay + t : d \in Days, t \in TimesOfDay}

\* chunk['Time'].dt.date, and the hour, minute and second of a timestamp.
DateOf(t) == t \div MsPerDay
HourOf(t) == (t % MsPerDay) \div Ms(1, 0, 0, 0)
MinuteOf(t) == ((t % MsPerDay) \div Ms(0, 1, 0, 0)) % 60
SecondOf(t) == ((t % MsPerDay) \div Ms(0, 0, 1, 0)) % 60

\* The content of a path: no file, a table of rows, or a file pd.read_csv
\* cannot read with parse_dates=['Time'] (no Time column, empty file,
\* malformed text), whose reading raises.
NoFile == [existe |-> FALSE, legible |-> FALSE, filas |-> <<>>]
Corrupt == [existe |-> TRUE, legible |-> FALSE, filas |-> <<>>]
Csv(filas) == [existe |-> TRUE, legible |-> TRUE, filas |-> filas]

RECURSIVE SeqsUpTo(_, _)
SeqsUpTo(S, n) ==
    IF n = 0 THEN {<<>>}
    ELSE LET shorter == SeqsUpTo(S, n - 1)
         IN  shorter \cup {Append(s, x) : s \in {q \in shorter : Len(q) = n - 1}, x \in S}

\* The tables that arrive: 1 to MaxFilas rows, in any order of time.
Tablas == SeqsUpTo(Times, MaxFilas) \ {<<>>}

\* File names of input_folder: h<i>.csv (a converted table), <date>.csv
\* (a day output) and <date>_temp.csv (a migrated continuation file).
NombreTabla(i) == <<"h", i>>
NombreDia(d) == <<"dia", d>>
NombreTemp(d) == <<"temp", d>>
Nombres ==
    {NombreTabla(i) : i \in 1..MaxTablas}
        \cup {NombreDia(d) : d \in Days} \cup {NombreTemp(d) : d \in Days}

RECURSIVE Perms(_)
Perms(S) ==
    IF S = {} THEN {<<>>}
    ELSE UNION {{<<x>> \o p : p \in Perms(S \ {x})} : x \in S}

Range(s) == {s[i] : i \in 1..Len(s)}
MaxOf(s) == CHOOSE x \in Range(s) : \A y \in Range(s) : y <= x

(***************************************************************************)
(* ordenar_y_agrupado_por_dia: the pure parts.                             *)
(***************************************************************************)

\* Lines 198-203: every file of the temp folder is moved into input_folder
\* under its own name, replacing a file of that name.
Migrar(ar, st) ==
    [n \in Nombres |->
        IF n[1] = "temp" /\ st[n[2]].existe THEN st[n[2]] ELSE ar[n]]

\* Lines 206-210: the .csv files found under input_folder.
CsvFiles(ar) == {n \in Nombres : ar[n].existe}

\* Line 225: chunk.sort_values(by='Time').
SortValues(chunk) == SortSeq(chunk, LAMBDA a, b : a < b)

\* Lines 228-234 for one chunk and one date: the group of that date.
GroupBy(chunk, d) == SelectSeq(SortValues(chunk), LAMBDA t : DateOf(t) = d)

\* Lines 223-234 for one file and one date: the groups of that date appended
\* by the chunks of the file, in chunk order.
RECURSIVE ReadCsv(_, _)
ReadCsv(filas, d) ==
    IF filas = <<>> THEN <<>>
    ELSE LET n == IF Len(filas) < ChunkSize THEN Len(filas) ELSE ChunkSize
         IN  GroupBy(SubSeq(filas, 1, n), d)
                 \o ReadCsv(SubSeq(filas, n + 1, Len(filas)), d)

\* Lines 221-239 for one date: pd.concat of datos_por_dia[date], the groups
\* in the order the files were enumerated.
RECURSIVE datos_por_dia(_, _, _)
datos_por_dia(csv_files, ar, d) ==
    IF csv_files = <<>> THEN <<>>
    ELSE ReadCsv(ar[Head(csv_files)].filas, d)
             \o datos_por_dia(Tail(csv_files), ar, d)

\* Line 252 without its test of the second.
IncompletoSinSegundo(last_time) ==
    HourOf(last_time) # 23 \/ MinuteOf(last_time) # 59

\* Line 252: the day is not complete up to 23:59:59.
Incompleto(last_time) ==
    HourOf(last_time) # 23 \/ MinuteOf(last_time) # 59 \/ SecondOf(last_time) # 59

\* Lines 263-266.
eliminar_archivos_csv(ar, csv_files) ==
    [n \in Nombres |-> IF n \in Range(csv_files) THEN NoFile ELSE ar[n]]

\* Bounds of the conversion stage.
MaxArchivos == 3
NumWorkers == 2

Archivos == 1..MaxArchivos

\* What is wrong with a measurement file: nothing; TdmsFile.read or
\* groups()[0] raises (lines 62-88); df.to_csv raises (line 95).
Defectos == {"ninguno", "lectura", "escritura"}

VARIABLES
    defecto,     \* file -> what is wrong with it (an input)
    tdms,        \* file -> the source <name>.tdms exists
    tdms_index,  \* file -> the sidecar <name>.tdms_index exists
    csv,         \* file -> "no", "parcial" or "escrito": the table <name>.csv
    pc,          \* file -> position of its task
    errores,     \* file -> number of failures printed for it
    barra,       \* the progress bar's count
    etapa        \* "inicio", "pool" or "retorno"

convVars == <<defecto, tdms, tdms_index, csv, pc, errores, barra, etapa>>

VARIABLES
    paso,                 \* main's position
    seleccion,            \* what select_processing_option returned
    last_processed_file,  \* config['last_processed_file']: 0 is no entry
    extraidos,            \* archives whose measurement file is in the working folder
    output_folder,        \* <<date, unidad>> -> the exported file of that name
    fallo,                \* where this execution of main raised, "no" if nowhere
    origen,               \* the unit of the execution that last wrote temp_folder
    al_inicio             \* temp_folder, last_processed_file and runs when main started

mainVars == <<paso, seleccion, last_processed_file, extraidos, output_folder,
              fallo, origen, al_inicio>>

VARIABLE nombrado  \* two dates, a unit and the names derived from them

restoVars == <<mainVars, nombrado>>

VARIABLES
    input_folder,    \* input_folder: file name -> content
    temp_folder,   \* the temp folder: date -> content of <date>_temp.csv
    nuevas,  \* names of the tables that arrived and no run has consumed yet
    tablas,  \* number of tables that arrived
    runs,    \* number of runs of ordenar_y_agrupado_por_dia
    ultima   \* the last run: how it ended, its flag and what it wrote per date

aggVars == <<input_folder, temp_folder, nuevas, tablas, runs, ultima>>

vars == <<input_folder, temp_folder, nuevas, tablas, runs, ultima,
          defecto, tdms, tdms_index, csv, pc, errores, barra, etapa,
          paso, seleccion, last_processed_file, extraidos, output_folder,
          fallo, origen, al_inicio, nombrado>>

SinDias == [d \in Days |-> NoFile]

\* No date has been named.
SinNombrar == [hecho |-> FALSE]

InitAgg ==
    /\ input_folder = [n \in Nombres |-> NoFile]
    /\ temp_folder = SinDias
    /\ nuevas = {}
    /\ tablas = 0
    /\ runs = 0
    /\ ultima = [estado |-> "none", pi |-> FALSE, escrito |-> SinDias]

\* A table arrives in input_folder: the conversion stage writes <name>.csv
\* for <name>.tdms (lines 91-95), or the table is supplied directly.  The
\* name is free: it may be that of a day output.
NuevaTabla(n, contenido) ==
    /\ tablas < MaxTablas
    /\ input_folder' = [input_folder EXCEPT ![n] = contenido]
    /\ nuevas' = nuevas \cup {n}
    /\ tablas' = tablas + 1
    /\ UNCHANGED <<temp_folder, runs, ultima>>
    /\ UNCHANGED convVars
    /\ UNCHANGED restoVars

\* main, lines 481-483: shutil.rmtree(temp_folder) of the working folder.
LimpiarCarpeta ==
    /\ CsvFiles(input_folder) # {}
    /\ input_folder' = [n \in Nombres |-> NoFile]
    /\ nuevas' = {}
    /\ UNCHANGED <<temp_folder, tablas, runs, ultima>>
    /\ UNCHANGED convVars
    /\ UNCHANGED restoVars

\* Lines 244-257 for one date, on input_folder: the day output is written
\* and, when the day is incomplete and procesar_incompleto is false, removed.
DiaEscrito(daily_data, procesar_incompleto) ==
    IF Incompleto(MaxOf(daily_data)) /\ ~procesar_incompleto
    THEN NoFile
    ELSE Csv(daily_data)

\* Lines 250-255 without the test of line 252: every day is copied.
TempEscritoSiempre(daily_data) ==
    IF daily_data # <<>> THEN Csv(daily_data) ELSE NoFile

\* Lines 250-255 for one date, on the temp folder: an incomplete day is
\* copied to <date>_temp.csv.
TempEscrito(daily_data) ==
    IF daily_data # <<>> /\ Incompleto(MaxOf(daily_data))
    THEN Csv(daily_data)
    ELSE NoFile

\* Lines 236-260 on input_folder: every date of datos_por_dia is written,
\* then the files of csv_files are deleted.
Guardar(ar, csv_files, datos, procesar_incompleto) ==
    LET escrita ==
            [n \in Nombres |->
                IF n[1] = "dia" /\ datos[n[2]] # <<>>
                THEN DiaEscrito(datos[n[2]], procesar_incompleto)
                ELSE ar[n]]
    IN  eliminar_archivos_csv(escrita, csv_files)

\* Lines 179-260.  The files are enumerated by os.walk in any order.  The
\* variables of main are left to the caller.
ordenar_y_agrupado_por_dia(procesar_incompleto) ==
    /\ runs < MaxRuns
    /\ runs' = runs + 1
    /\ UNCHANGED tablas
    /\ UNCHANGED convVars
    /\ UNCHANGED nombrado
    /\ LET migrada == Migrar(input_folder, temp_folder)
       IN  \E csv_files \in Perms(CsvFiles(migrada)) :
             IF csv_files = <<>>
             THEN \* line 213: nothing to do
                  /\ input_folder' = migrada
                  /\ temp_folder' = SinDias
                  /\ nuevas' = nuevas
                  /\ ultima' = [estado |-> "vacio", pi |-> procesar_incompleto,
                                escrito |-> SinDias]
             ELSE IF \E n \in Range(csv_files) : ~migrada[n].legible
             THEN \* line 223 raises: nothing was written, nothing is deleted
                  /\ input_folder' = migrada
                  /\ temp_folder' = SinDias
                  /\ nuevas' = nuevas
                  /\ ultima' = [estado |-> "error", pi |-> procesar_incompleto,
                                escrito |-> SinDias]
             ELSE LET datos == [d \in Days |-> datos_por_dia(csv_files, migrada, d)]
                  IN  /\ input_folder' = Guardar(migrada, csv_files, datos, procesar_incompleto)
                      /\ temp_folder' = [d \in Days |-> TempEscrito(datos[d])]
                      /\ nuevas' = {}
                      /\ ultima' =
                            [estado |-> "ok", pi |-> procesar_incompleto,
                             escrito |->
                                [d \in Days |->
                                    IF datos[d] = <<>> THEN NoFile ELSE Csv(datos[d])]]

NombresNuevos == {NombreTabla(tablas + 1)} \cup {NombreDia(d) : d \in Days}

NextAgg ==
    \/ \E n \in NombresNuevos, t \in Tablas : NuevaTabla(n, Csv(t))
    \/ \E n \in NombresNuevos : NuevaTabla(n, Corrupt)
    \/ LimpiarCarpeta
    \/ \E procesar_incompleto \in BOOLEAN :
            ordenar_y_agrupado_por_dia(procesar_incompleto) /\ UNCHANGED mainVars

(***************************************************************************)
(* The conversion stage: procesar_archivos_tdms_paralelo submits one       *)
(* convertir_tdms_a_csv task per .tdms file to a pool of num_workers        *)
(* threads and collects them with as_completed.                            *)
(***************************************************************************)

InitConvWith(presentes, defs, idx) ==
    /\ defecto = [f \in Archivos |-> IF f \in presentes THEN defs[f] ELSE "ninguno"]
    /\ tdms = [f \in Archivos |-> f \in presentes]
    /\ tdms_index = [f \in Archivos |-> f \in presentes /\ idx[f]]
    /\ csv = [f \in Archivos |-> "no"]
    /\ pc = [f \in Archivos |-> "nada"]
    /\ errores = [f \in Archivos |-> 0]
    /\ barra = 0
    /\ etapa = "inicio"

EnCurso == {"leer", "escribir", "verificar", "indice"}

\* Lines 149-167: the .tdms files of the folder are submitted; with none
\* the stage returns at once (lines 155-157).
Enviar ==
    /\ etapa = "inicio"
    /\ etapa' = IF \E f \in Archivos : tdms[f] THEN "pool" ELSE "retorno"
    /\ pc' = [f \in Archivos |-> IF tdms[f] THEN "pendiente" ELSE "nada"]
    /\ UNCHANGED <<defecto, tdms, tdms_index, csv, errores, barra>>
    /\ UNCHANGED aggVars
    /\ UNCHANGED restoVars

\* A free thread of the pool takes a submitted task (line 162: at most
\* max_workers run).
Iniciar(f) ==
    /\ etapa = "pool"
    /\ pc[f] = "pendiente"
    /\ Cardinality({g \in Archivos : pc[g] \in EnCurso}) < NumWorkers
    /\ pc' = [pc EXCEPT ![f] = "leer"]
    /\ UNCHANGED <<defecto, tdms, tdms_index, csv, errores, barra, etapa>>
    /\ UNCHANGED aggVars
    /\ UNCHANGED restoVars

\* Lines 109-110 with a handler that prints and raises again, so that the
\* collector prints the failure too (line 175).
FallarDosVeces(f) ==
    /\ errores' = [errores EXCEPT ![f] = @ + 2]
    /\ pc' = [pc EXCEPT ![f] = "fin"]

\* Lines 109-110: the handler prints the failure and the task returns.
Fallar(f) ==
    /\ errores' = [errores EXCEPT ![f] = @ + 1]
    /\ pc' = [pc EXCEPT ![f] = "fin"]

\* Lines 62-88: the file is read and the DataFrame built.
Leer(f) ==
    /\ pc[f] = "leer"
    /\ IF defecto[f] = "lectura"
       THEN Fallar(f)
       ELSE /\ pc' = [pc EXCEPT ![f] = "escribir"]
            /\ UNCHANGED errores
    /\ UNCHANGED <<defecto, tdms, tdms_index, csv, barra, etapa>>
    /\ UNCHANGED aggVars
    /\ UNCHANGED restoVars

\* Lines 91-95 with the failure of the write swallowed on the spot: the
\* task goes on to the test of line 99.
EscribirSinFallo(f) ==
    /\ pc[f] = "escribir"
    /\ IF defecto[f] = "escritura"
       THEN \E resto \in {"no", "parcial"} : csv' = [csv EXCEPT ![f] = resto]
       ELSE csv' = [csv EXCEPT ![f] = "escrito"]
    /\ pc' = [pc EXCEPT ![f] = "verificar"]
    /\ UNCHANGED <<defecto, tdms, tdms_index, errores, barra, etapa>>
    /\ UNCHANGED aggVars
    /\ UNCHANGED restoVars

\* Lines 91-95: df.to_csv.  A write that raises may leave a partial file.
Escribir(f) ==
    /\ pc[f] = "escribir"
    /\ IF defecto[f] = "escritura"
       THEN /\ Fallar(f)
            /\ \E resto \in {"no", "parcial"} : csv' = [csv EXCEPT ![f] = resto]
       ELSE /\ csv' = [csv EXCEPT ![f] = "escrito"]
            /\ pc' = [pc EXCEPT ![f] = "verificar"]
            /\ UNCHANGED errores
    /\ UNCHANGED <<defecto, tdms, tdms_index, barra, etapa>>
    /\ UNCHANGED aggVars
    /\ UNCHANGED restoVars

\* Lines 99-100 and 106-107: the source is removed when the table exists.
Verificar(f) ==
    /\ pc[f] = "verificar"
    /\ IF csv[f] # "no"
       THEN /\ tdms' = [tdms EXCEPT ![f] = FALSE]
            /\ pc' = [pc EXCEPT ![f] = "indice"]
       ELSE /\ pc' = [pc EXCEPT ![f] = "fin"]
            /\ UNCHANGED tdms
    /\ UNCHANGED <<defecto, tdms_index, csv, errores, barra, etapa>>
    /\ UNCHANGED aggVars
    /\ UNCHANGED restoVars

\* Lines 103-105: the sidecar index is removed if it exists.
BorrarIndice(f) ==
    /\ pc[f] = "indice"
    /\ tdms_index' = [tdms_index EXCEPT ![f] = FALSE]
    /\ pc' = [pc EXCEPT ![f] = "fin"]
    /\ UNCHANGED <<defecto, tdms, csv, errores, barra, etapa>>
    /\ UNCHANGED aggVars
    /\ UNCHANGED restoVars

\* Lines 170-177: as_completed yields a finished task; the bar advances.
Recoger(f) ==
    /\ etapa = "pool"
    /\ pc[f] = "fin"
    /\ pc' = [pc EXCEPT ![f] = "recogido"]
    /\ barra' = barra + 1
    /\ UNCHANGED <<defecto, tdms, tdms_index, csv, errores, etapa>>
    /\ UNCHANGED aggVars
    /\ UNCHANGED restoVars

\* Lines 160-177 with a pool that is left without waiting for its tasks.
RetornarSinEsperar ==
    /\ etapa = "pool"
    /\ etapa' = "retorno"
    /\ UNCHANGED <<defecto, tdms, tdms_index, csv, pc, errores, barra>>
    /\ UNCHANGED aggVars
    /\ UNCHANGED restoVars

\* The with blocks end (lines 160-177): the stage returns.
Retornar ==
    /\ etapa = "pool"
    /\ \A f \in Archivos : pc[f] \in {"nada", "recogido"}
    /\ etapa' = "retorno"
    /\ UNCHANGED <<defecto, tdms, tdms_index, csv, pc, errores, barra>>
    /\ UNCHANGED aggVars
    /\ UNCHANGED restoVars

NextConv ==
    \/ Enviar
    \/ \E f \in Archivos : Iniciar(f)
    \/ \E f \in Archivos : Leer(f)
    \/ \E f \in Archivos : Escribir(f)
    \/ \E f \in Archivos : Verificar(f)
    \/ \E f \in Archivos : BorrarIndice(f)
    \/ \E f \in Archivos : Recoger(f)
    \/ Retornar

(***************************************************************************)
(* main: one execution selects archives, extracts them into the working    *)
(* folder (input_folder here), records the last archive, converts,         *)
(* aggregates, exports and copies to output_folder, and in its finally     *)
(* removes the working folder.  Archive i holds one measurement file,      *)
(* which the conversion stage turns into the table h<i>.csv.               *)
(***************************************************************************)

Zips == 1..MaxTablas

\* The answers to "Indique la unidad que se va a procesar".
Unidades == {"05", "06"}

\* The values of os.cpu_count().
MaxCpus == 4
Cpus == 1..MaxCpus

\* The tables the measurement files of the archives convert to: one row,
\* in mid-morning or in the last second of a day.
TablasZip == {<<d * MsPerDay + t>> : d \in Days, t \in {Ms(10, 0, 0, 0), Ms(23, 59, 59, 0)}}

SinSalida == [k \in Days \X Unidades |-> NoFile]

\* Before select_processing_option has returned.
SinSeleccion == [files |-> <<>>, pi |-> FALSE, unidad |-> "05"]

InitMain ==
    /\ paso = "inicio"
    /\ seleccion = SinSeleccion
    /\ last_processed_file = 0
    /\ extraidos = {}
    /\ output_folder = SinSalida
    /\ fallo = "no"
    /\ origen = "05"
    /\ al_inicio = [temp |-> SinDias, last |-> 0, runs |-> 0]

\* zip_files[a-1 : b], the archives a..b in sorted order.
Rango(a, b) == [k \in 1..(b - a + 1) |-> a + k - 1]

\* Lines 372-409: option 1 (after the last processed archive, or all of
\* them), option 2 (one archive) and option 3 (a range).
Selecciones ==
    {Rango(last_processed_file + 1, MaxTablas)}
        \cup {Rango(a, b) : a \in Zips, b \in Zips}

\* Lines 442-452: main starts on a fresh working folder and the user
\* selects; with nothing selected main returns through its finally.
Seleccionar ==
    /\ paso = "inicio"
    /\ runs < MaxRuns
    /\ \E files \in Selecciones, pi \in BOOLEAN, unidad \in Unidades :
          /\ seleccion' = [files |-> files, pi |-> pi, unidad |-> unidad]
          /\ paso' = IF files = <<>> THEN "finally" ELSE "descomprimir"
    /\ fallo' = "no"
    /\ extraidos' = {}
    /\ al_inicio' = [temp |-> temp_folder, last |-> last_processed_file, runs |-> runs]
    /\ UNCHANGED <<last_processed_file, output_folder, origen>>
    /\ UNCHANGED <<aggVars, convVars, nombrado>>

\* Lines 411-413 and 448: option 4 returns two values where main unpacks
\* three, which raises.
Salir ==
    /\ paso = "inicio"
    /\ runs < MaxRuns
    /\ paso' = "finally"
    /\ fallo' = "select"
    /\ extraidos' = {}
    /\ al_inicio' = [temp |-> temp_folder, last |-> last_processed_file, runs |-> runs]
    /\ UNCHANGED <<seleccion, last_processed_file, output_folder, origen>>
    /\ UNCHANGED <<aggVars, convVars, nombrado>>

\* Lines 12-57 without the test of lines 18-19: every subprocess.run fails
\* for want of the program, the failure is printed and the function returns.
decompress_sin_verificar ==
    /\ paso = "descomprimir"
    /\ \E hay7z \in BOOLEAN :
          IF ~hay7z
          THEN /\ fallo' = "7z"
               /\ paso' = "config"
               /\ UNCHANGED extraidos
          ELSE /\ \E ok \in SUBSET Range(seleccion.files) : extraidos' = ok
               /\ paso' = "config"
               /\ UNCHANGED fallo
    /\ UNCHANGED <<seleccion, last_processed_file, output_folder, origen, al_inicio>>
    /\ UNCHANGED <<aggVars, convVars, nombrado>>

\* Lines 12-57: without 7z the function raises at once; with it every
\* selected archive is extracted, or its failure is printed and skipped.
decompress_zip_files ==
    /\ paso = "descomprimir"
    /\ \E hay7z \in BOOLEAN :
          IF ~hay7z
          THEN /\ fallo' = "7z"
               /\ paso' = "finally"
               /\ UNCHANGED extraidos
          ELSE /\ \E ok \in SUBSET Range(seleccion.files) : extraidos' = ok
               /\ paso' = "config"
               /\ UNCHANGED fallo
    /\ UNCHANGED <<seleccion, last_processed_file, output_folder, origen, al_inicio>>
    /\ UNCHANGED <<aggVars, convVars, nombrado>>

\* Lines 458-459: the last selected archive is recorded and saved.
GuardarUltimo ==
    /\ paso = "config"
    /\ last_processed_file' = seleccion.files[Len(seleccion.files)]
    /\ paso' = "convertir"
    /\ UNCHANGED <<seleccion, extraidos, output_folder, fallo, origen, al_inicio>>
    /\ UNCHANGED <<aggVars, convVars, nombrado>>

\* Line 463: num_workers.
num_workers(cpus) == cpus - 2

\* Line 463, the conversion stage as one step: with files to convert and
\* no positive pool size ThreadPoolExecutor raises; otherwise each
\* extracted file becomes its table, or its conversion fails and leaves
\* none.  A table may be one that pd.read_csv cannot read.
Convertir ==
    /\ paso = "convertir"
    /\ \E cpus \in Cpus :
          IF extraidos # {} /\ num_workers(cpus) <= 0
          THEN /\ fallo' = "convertir"
               /\ paso' = "finally"
               /\ UNCHANGED <<input_folder, nuevas>>
          ELSE /\ \E contenido \in [extraidos -> {Csv(t) : t \in TablasZip} \cup {Corrupt, NoFile}] :
                    /\ input_folder' =
                          [n \in Nombres |->
                              IF n[1] = "h" /\ n[2] \in extraidos
                              THEN contenido[n[2]]
                              ELSE input_folder[n]]
                    /\ nuevas' = {NombreTabla(i) : i \in {j \in extraidos : contenido[j].existe}}
               /\ paso' = "ordenar"
               /\ UNCHANGED fallo
    /\ UNCHANGED <<temp_folder, tablas, runs, ultima>>
    /\ UNCHANGED <<seleccion, last_processed_file, extraidos, output_folder, origen, al_inicio>>
    /\ UNCHANGED <<convVars, nombrado>>

\* Line 466: the aggregation on the working folder; when it raises main
\* goes to its finally.
Ordenar ==
    /\ paso = "ordenar"
    /\ ordenar_y_agrupado_por_dia(seleccion.pi)
    /\ paso' = IF ultima'.estado = "error" THEN "finally" ELSE "csv_to_mat"
    /\ fallo' = IF ultima'.estado = "error" THEN "ordenar" ELSE fallo
    /\ origen' = seleccion.unidad
    /\ UNCHANGED <<seleccion, last_processed_file, extraidos, output_folder, al_inicio>>

\* Lines 469-479: every .csv of the working folder is exported under the
\* name derived from its own and the unit, and the folder's files are
\* copied to output_folder, replacing files of the same name.  The copy
\* may raise (the folder missing or full) after some of the files.
Exportar ==
    /\ paso = "csv_to_mat"
    /\ LET dias == {d \in Days : input_folder[NombreDia(d)].existe}
       IN  \E copiados \in SUBSET dias :
             /\ output_folder' =
                   [k \in Days \X Unidades |->
                       IF k[1] \in copiados /\ k[2] = seleccion.unidad
                       THEN input_folder[NombreDia(k[1])]
                       ELSE output_folder[k]]
             /\ fallo' = IF copiados = dias THEN fallo ELSE "copiar"
    /\ paso' = "finally"
    /\ UNCHANGED <<seleccion, last_processed_file, extraidos, origen, al_inicio>>
    /\ UNCHANGED <<aggVars, convVars, nombrado>>

\* Lines 481-483: the working folder is removed with all it holds, and
\* main is left (by its return or by the exception it lets through).
Finalizar ==
    /\ paso = "finally"
    /\ input_folder' = [n \in Nombres |-> NoFile]
    /\ nuevas' = {}
    /\ extraidos' = {}
    /\ paso' = "inicio"
    /\ seleccion' = SinSeleccion
    /\ fallo' = "no"
    /\ al_inicio' = [temp |-> temp_folder, last |-> last_processed_file, runs |-> runs]
    /\ UNCHANGED <<temp_folder, tablas, runs, ultima>>
    /\ UNCHANGED <<last_processed_file, output_folder, origen>>
    /\ UNCHANGED <<convVars, nombrado>>

NextMain ==
    \/ Seleccionar
    \/ Salir
    \/ decompress_zip_files
    \/ GuardarUltimo
    \/ Convertir
    \/ Ordenar
    \/ Exportar
    \/ Finalizar

(***************************************************************************)
(* The names derived from a date: the day table and the continuation file  *)
(* (lines 245 and 254) and the exported file (csv_to_mat, lines 293-306).  *)
(* A name is the sequence of its characters.                               *)
(***************************************************************************)

\* The dates the names are derived from: <<year, month, day>>.
Anios == {1924, 2024, 2025}
Meses == {1, 3, 11}
DiasDelMes == {1, 2, 11, 21}
Fechas == {<<y, m, d>> : y \in Anios, m \in Meses, d \in DiasDelMes}

Digitos == <<"0", "1", "2", "3", "4", "5", "6", "7", "8", "9">>

\* str(n) of a natural number.
RECURSIVE Str(_)
Str(n) ==
    IF n < 10 THEN <<Digitos[n + 1]>>
    ELSE Str(n \div 10) \o <<Digitos[(n % 10) + 1]>>

\* n in decimal, padded with zeros to the width w.
ZFill(n, w) ==
    LET digits == Str(n)
    IN  IF Len(digits) >= w THEN digits
        ELSE [i \in 1..(w - Len(digits)) |-> "0"] \o digits

\* f"{date}" of a datetime.date: YYYY-MM-DD.
isoformat(date) ==
    ZFill(date[1], 4) \o <<"-">> \o ZFill(date[2], 2) \o <<"-">> \o ZFill(date[3], 2)

\* Line 245: f"{date}.csv".
output_file(date) == isoformat(date) \o <<".", "c", "s", "v">>

\* Line 254: f"{date}_temp.csv".
temp_file(date) == isoformat(date) \o <<"_", "t", "e", "m", "p", ".", "c", "s", "v">>

\* os.path.splitext(name)[0]: the name up to its last dot.
splitext(name) ==
    LET dots == {i \in 1..Len(name) : name[i] = "."}
    IN  IF dots = {} THEN name
        ELSE SubSeq(name, 1, (CHOOSE i \in dots : \A j \in dots : j <= i) - 1)

\* name.split(sep).
RECURSIVE split(_, _)
split(name, sep) ==
    LET at == {i \in 1..Len(name) : name[i] = sep}
    IN  IF at = {} THEN <<name>>
        ELSE LET i == CHOOSE k \in at : \A j \in at : k <= j
             IN  <<SubSeq(name, 1, i - 1)>> \o split(SubSeq(name, i + 1, Len(name)), sep)

\* part.isdigit() and int(part).
isdigit(part) == part # <<>> /\ \A i \in 1..Len(part) : part[i] \in Range(Digitos)
RECURSIVE int(_)
int(part) ==
    IF part = <<>> THEN 0
    ELSE int(SubSeq(part, 1, Len(part) - 1)) * 10
             + ((CHOOSE k \in 1..10 : Digitos[k] = part[Len(part)]) - 1)

\* sep.join(parts).
RECURSIVE join(_, _)
join(parts, sep) ==
    IF parts = <<>> THEN <<>>
    ELSE IF Len(parts) = 1 THEN parts[1]
    ELSE parts[1] \o <<sep>> \o join(Tail(parts), sep)

\* The characters of a unit.
Letras(unidad) == IF unidad = "05" THEN <<"0", "5">> ELSE <<"0", "6">>

\* Lines 293-306: the first two characters of the first part are dropped,
\* every part of digits loses its leading zeros, the parts are joined with
\* dots and the unit is appended.
formatted_name(csv_file) ==
    LET parts == split(splitext(csv_file), "-")
        sin_siglo == [parts EXCEPT ![1] = SubSeq(parts[1], 3, Len(parts[1]))]
        sin_ceros == [i \in 1..Len(sin_siglo) |->
                         IF isdigit(sin_siglo[i]) THEN Str(int(sin_siglo[i]))
                         ELSE sin_siglo[i]]
    IN  join(sin_ceros, ".")

mat_file(csv_file, unidad) ==
    formatted_name(csv_file) \o <<"-", "u">> \o Letras(unidad) \o <<".", "m", "a", "t">>

InitNombres ==
    \E f1 \in Fechas, f2 \in Fechas, unidad \in Unidades :
        nombrado = [hecho |-> FALSE, fechas |-> <<f1, f2>>, unidad |-> unidad]

\* The names of the two dates are derived.
Nombrar ==
    /\ ~nombrado.hecho
    /\ nombrado' =
          [hecho |-> TRUE, fechas |-> nombrado.fechas, unidad |-> nombrado.unidad,
           dia |-> [i \in 1..2 |-> output_file(nombrado.fechas[i])],
           temp |-> [i \in 1..2 |-> temp_file(nombrado.fechas[i])],
           mat |-> [i \in 1..2 |-> mat_file(output_file(nombrado.fechas[i]), nombrado.unidad)]]
    /\ UNCHANGED <<aggVars, convVars, mainVars>>

NextNombres == Nombrar

(***************************************************************************)
(* The specifications.                                                     *)
(***************************************************************************)

\* The aggregation, the conversion stage at rest.
ConvEnReposo ==
    InitConvWith({}, [f \in Archivos |-> "ninguno"], [f \in Archivos |-> FALSE])

Init ==
    /\ InitAgg
    /\ ConvEnReposo
    /\ InitMain
    /\ nombrado = SinNombrar

Next == NextAgg

Spec == Init /\ [][Next]_vars

\* The conversion stage on any set of sound and defective files, the
\* aggregation at rest.
InitConv ==
    /\ InitAgg
    /\ \E presentes \in SUBSET Archivos :
         \E defs \in [Archivos -> Defectos], idx \in [Archivos -> BOOLEAN] :
            InitConvWith(presentes, defs, idx)
    /\ InitMain
    /\ nombrado = SinNombrar

SpecConv == InitConv /\ [][NextConv]_vars

\* Executions of main, one after the other.
SpecMain == Init /\ [][NextMain]_vars

\* The names of any two dates.
InitNom ==
    /\ InitAgg
    /\ ConvEnReposo
    /\ InitMain
    /\ InitNombres

SpecNombres == InitNom /\ [][NextNombres]_vars

(***************************************************************************)
(* Vocabulary of the properties.                                           *)
(***************************************************************************)

\* A time value lies in the last second of its day (hour 23, minute 59,
\* second 59).
FinDelDia(t) == t % MsPerDay >= Ms(23, 59, 59, 0)

Count(x, s) == Cardinality({i \in 1..Len(s) : s[i] = x})

IsSorted(s) == \A i \in 1..(Len(s) - 1) : s[i] <= s[i + 1]

SinRepetir(s) == \A i, j \in 1..Len(s) : s[i] = s[j] => i = j

MismasFilas(s, t) == \A x \in Range(s) \cup Range(t) : Count(x, s) = Count(x, t)

FilasDelDia(s, d) == SelectSeq(s, LAMBDA t : DateOf(t) = d)

\* The rows of date d in the tables of the set N of names, one table after
\* the other.
RECURSIVE FilasEn(_, _, _)
FilasEn(ar, N, d) ==
    IF N = {} THEN <<>>
    ELSE LET n == CHOOSE x \in N : TRUE
         IN  FilasDelDia(ar[n].filas, d) \o FilasEn(ar, N \ {n}, d)

\* This step is a run of ordenar_y_agrupado_por_dia.
EsRun == runs' = runs + 1
\* ... that returned after writing its days.
RunOk == EsRun /\ ultima'.estado = "ok"

\* What the run of this step reads: the folder after the migration.
Entrada == Migrar(input_folder, temp_folder)

(***************************************************************************)
(* C1-C5, C8-C10: the day aggregation (Spec).                              *)
(***************************************************************************)

\* C1: when the previous run's rows for a day D do not reach 23:59:59 and
\* this run's new tables supply the remainder of D (later rows, up to
\* 23:59:59), the table this run writes for D holds every row of D of both
\* runs exactly once.
C1_UnionDeDosRuns ==
    [][\A d \in Days :
          LET antes == ultima.escrito[d].filas
              resto == FilasEn(input_folder, nuevas, d)
          IN  (/\ RunOk
               /\ ultima.estado = "ok"
               /\ ultima.escrito[d].existe
               /\ ~FinDelDia(MaxOf(antes))
               /\ SinRepetir(antes)
               /\ resto # <<>>
               /\ SinRepetir(resto)
               /\ FinDelDia(MaxOf(resto))
               /\ \A i \in 1..Len(resto) : resto[i] > MaxOf(antes))
              => /\ ultima'.escrito[d].existe
                 /\ \A t \in Range(antes) \cup Range(resto) :
                       Count(t, ultima'.escrito[d].filas) = 1]_vars

\* C2: every day table a run writes, and every continuation copy, has its
\* rows in ascending time order.
C2_TablasOrdenadas ==
    ultima.estado = "ok" =>
        \A d \in Days :
            /\ ultima.escrito[d].existe => IsSorted(ultima.escrito[d].filas)
            /\ temp_folder[d].existe => IsSorted(temp_folder[d].filas)

\* C3: when a continuation record for D exists and this run's new tables
\* supply rows of D up to 23:59:59, then after the run returns the day file
\* of D exists and temp_folder holds no record for D.
C3_RegistroConsumido ==
    [][\A d \in Days :
          LET resto == FilasEn(input_folder, nuevas, d)
          IN  (/\ RunOk
               /\ temp_folder[d].existe
               /\ resto # <<>>
               /\ FinDelDia(MaxOf(resto)))
              => /\ input_folder'[NombreDia(d)].existe
                 /\ ~temp_folder'[d].existe]_vars

\* C4: after a run returns, temp_folder holds a record for D if and only if
\* the run's bucket for D does not end in the last second of D; a maximum of
\* exactly 23:59:59.000 leaves no record, one of 23:59:58.999 leaves one.
C4_RegistroSiiIncompleto ==
    ultima.estado \in {"ok", "vacio"} =>
        \A d \in Days :
            IF ultima.escrito[d].existe
            THEN LET mx == MaxOf(ultima.escrito[d].filas)
                 IN  /\ temp_folder[d].existe <=> ~FinDelDia(mx)
                     /\ mx = d * MsPerDay + Ms(23, 59, 59, 0) => ~temp_folder[d].existe
                     /\ mx = d * MsPerDay + Ms(23, 59, 58, 999) => temp_folder[d].existe
            ELSE ~temp_folder[d].existe

\* C4's case: one run left a day ending at 23:59:59.000 without a record
\* and a day ending at 23:59:58.999 with one.
C4_Witness ==
    /\ ultima.estado = "ok"
    /\ \E d, e \in Days :
          /\ ultima.escrito[d].existe
          /\ MaxOf(ultima.escrito[d].filas) = d * MsPerDay + Ms(23, 59, 59, 0)
          /\ ~temp_folder[d].existe
          /\ ultima.escrito[e].existe
          /\ MaxOf(ultima.escrito[e].filas) = e * MsPerDay + Ms(23, 59, 58, 999)
          /\ temp_folder[e].existe

\* C5: a run with no new table, on the folder and temp_folder as the runs
\* before left them, leaves every complete day output present with the same
\* rows and temp_folder with the same records and rows.
C5_Idempotente ==
    [][(/\ EsRun
        /\ runs >= 1
        /\ nuevas = {})
       => /\ ultima'.estado \in {"ok", "vacio"}
          /\ \A d \in Days :
                LET salida == input_folder[NombreDia(d)]
                IN  (salida.legible /\ salida.filas # <<>>
                       /\ FinDelDia(MaxOf(salida.filas)))
                    => /\ input_folder'[NombreDia(d)].existe
                       /\ MismasFilas(input_folder'[NombreDia(d)].filas, salida.filas)
          /\ \A d \in Days :
                /\ temp_folder'[d].existe <=> temp_folder[d].existe
                /\ MismasFilas(temp_folder'[d].filas, temp_folder[d].filas)]_vars

\* C8: when a run returns, the day output of every complete date it
\* observed (of every date it observed when procesar_incompleto) exists in
\* the folder, and every file it consumed is gone unless a day output was
\* written under its name.
C8_SalidasYEntradas ==
    [][RunOk
       => /\ \A d \in Days :
                (/\ ultima'.escrito[d].existe
                 /\ \/ ultima'.pi
                    \/ FinDelDia(MaxOf(ultima'.escrito[d].filas)))
                => input_folder'[NombreDia(d)].existe
          /\ \A n \in CsvFiles(Entrada) :
                \/ ~input_folder'[n].existe
                \/ n[1] = "dia" /\ ultima'.escrito[n[2]].existe]_vars

\* C9: when no consumed file holds a row twice by itself, no table a run
\* writes for a day holds the same row twice.
C9_SinDuplicados ==
    [][(/\ RunOk
        /\ \A n \in CsvFiles(Entrada) : SinRepetir(Entrada[n].filas))
       => \A d \in Days : SinRepetir(ultima'.escrito[d].filas)]_vars

\* C10: a run that meets an unreadable table beside readable ones still
\* reads the readable tables and writes their days: it returns, and every
\* date with rows in a readable consumed table is written.
C10_FalloDeLecturaAislado ==
    [][(/\ EsRun
        /\ \E n \in CsvFiles(Entrada) : ~Entrada[n].legible
        /\ \E n \in CsvFiles(Entrada) : Entrada[n].legible)
       => /\ ultima'.estado = "ok"
          /\ \A d \in Days :
                (\E n \in CsvFiles(Entrada) :
                    Entrada[n].legible /\ FilasDelDia(Entrada[n].filas, d) # <<>>)
                => ultima'.escrito[d].existe]_vars

(***************************************************************************)
(* C6, C7: the conversion stage (SpecConv).                                *)
(***************************************************************************)

\* The files the stage submitted.
Enviados == {f \in Archivos : pc[f] # "nada"}

\* Exactly the file f cannot be read; every other file is sound.
SoloCorrupto(f) ==
    /\ f \in Enviados
    /\ defecto[f] = "lectura"
    /\ \A g \in Enviados \ {f} : defecto[g] = "ninguno"

RECURSIVE Suma(_, _)
Suma(fn, S) ==
    IF S = {} THEN 0
    ELSE LET x == CHOOSE y \in S : TRUE
         IN  fn[x] + Suma(fn, S \ {x})

\* C6: when exactly one of the N submitted files is corrupted, the stage
\* returns, whatever the interleaving, with N-1 tables written, the
\* corrupted source in place, every other file converted and its source
\* removed, and exactly one failure reported, for the corrupted file.
C6_FalloAislado ==
    \A f \in Archivos :
        (etapa = "retorno" /\ SoloCorrupto(f))
        => /\ Cardinality({g \in Archivos : csv[g] # "no"}) = Cardinality(Enviados) - 1
           /\ tdms[f]
           /\ csv[f] = "no"
           /\ \A g \in Enviados \ {f} : csv[g] = "escrito" /\ ~tdms[g]
           /\ errores[f] = 1
           /\ Suma(errores, Archivos) = 1

\* C6's case: the stage has returned from a run on MaxArchivos files, one
\* of them corrupted and the others converted.
C6_Witness ==
    \E f \in Archivos :
        /\ etapa = "retorno"
        /\ SoloCorrupto(f)
        /\ errores[f] = 1
        /\ Cardinality(Enviados) = MaxArchivos
        /\ \A g \in Enviados \ {f} : csv[g] = "escrito"

\* C7: the source and its sidecar index are removed only when the table of
\* the same file has been written and found to exist, and the source of a
\* file whose conversion fails (at reading, building or writing) is never
\* removed.
C7_BorradoTrasEscritura ==
    [][\A f \in Archivos :
          /\ (tdms[f] /\ ~tdms'[f]) => (csv[f] = "escrito" /\ pc[f] = "verificar")
          /\ (tdms_index[f] /\ ~tdms_index'[f]) => (csv[f] = "escrito" /\ ~tdms[f])
          /\ (defecto[f] # "ninguno" \/ errores'[f] > 0) => tdms'[f]]_vars

\* C7's case: one source was removed after its table was written, and
\* another, whose write failed, is still in place.
C7_Witness ==
    \E f, g \in Archivos :
        /\ ~tdms[f] /\ csv[f] = "escrito"
        /\ defecto[g] = "escritura" /\ errores[g] = 1 /\ pc[g] = "fin" /\ tdms[g]

(***************************************************************************)
(* C11, C14, C18-C20: executions of main (SpecMain).                       *)
(***************************************************************************)

\* An exported day table that reaches the last second of its day.
Completa(f) == f.existe /\ f.filas # <<>> /\ FinDelDia(MaxOf(f.filas))

\* This step is main's finally: the execution is over after it.
EsFinal == paso = "finally" /\ paso' = "inicio"

\* C11: between executions no date has both a continuation record and a
\* complete exported table, and no step replaces or removes a complete
\* exported table.
C11_CompletoNoSeReabre ==
    [][/\ paso' = "inicio" =>
            \A d \in Days, u \in Unidades :
                ~(temp_folder'[d].existe /\ Completa(output_folder'[<<d, u>>]))
       /\ \A k \in Days \X Unidades :
            Completa(output_folder[k]) => output_folder'[k] = output_folder[k]]_vars

\* C14: when 7z is missing the execution raises at once and goes to its
\* finally; up to and through the finally nothing has been extracted, no
\* table is in the working folder, no aggregation has run, temp_folder is
\* as it was, nothing is exported and last_processed_file keeps its value.
C14_Sin7zNadaSeProcesa ==
    [][/\ fallo' = "7z" =>
            /\ paso' = "finally"
            /\ extraidos' = {}
            /\ CsvFiles(input_folder') = {}
            /\ runs' = al_inicio'.runs
            /\ temp_folder' = al_inicio'.temp
            /\ last_processed_file' = al_inicio'.last
            /\ output_folder' = output_folder
       /\ (fallo = "7z" /\ EsFinal) =>
            /\ runs' = al_inicio.runs
            /\ temp_folder' = al_inicio.temp
            /\ last_processed_file' = al_inicio.last
            /\ output_folder' = output_folder]_vars

\* C14's case: with a record pending and a last processed archive on
\* record, an execution that selected every archive found 7z missing.
C14_Witness ==
    /\ fallo = "7z"
    /\ paso = "finally"
    /\ Len(seleccion.files) = MaxTablas
    /\ last_processed_file # 0
    /\ \E d \in Days : temp_folder[d].existe

\* C18: when an execution of main is over, every row of every record that
\* temp_folder held when it started is in the record of its date, or the
\* execution completed and exported it in the table of its date.
C18_RegistrosDuraderos ==
    [][EsFinal =>
          \A d \in Days :
              \A t \in Range(al_inicio.temp[d].filas) :
                  \/ t \in Range(temp_folder'[d].filas)
                  \/ /\ fallo = "no"
                     /\ t \in Range(output_folder'[<<d, seleccion.unidad>>].filas)]_vars

\* C19: when an execution of main is over and last_processed_file is not
\* what it was at its start, the execution raised nowhere and the archive
\* now on record was extracted by it.
C19_UltimoSoloSiCompleto ==
    [][EsFinal =>
          (last_processed_file' # al_inicio.last
              => fallo = "no" /\ last_processed_file' \in extraidos)]_vars

\* C20: a row carried in a record written by an execution for one unit,
\* and not supplied again by the tables of this execution, is in no table
\* the aggregation writes in an execution for another unit.
C20_RegistroDeSuUnidad ==
    [][(/\ paso = "ordenar"
        /\ RunOk
        /\ origen # seleccion.unidad)
       => \A d \in Days :
              \A t \in Range(temp_folder[d].filas) :
                  t \notin Range(FilasEn(input_folder, nuevas, d))
                      => t \notin Range(ultima'.escrito[d].filas)]_vars

(***************************************************************************)
(* C12, C16, C17: the day aggregation (Spec).                              *)
(***************************************************************************)

\* C12: between runs temp_folder holds the rows of a date in one record
\* only, the record of that date, and every record is the bucket of a date
\* that the last run left short of the last second of the day.
C12_UnRegistroPorDia ==
    \A d \in Days :
        temp_folder[d].existe =>
            /\ \A t \in Range(temp_folder[d].filas) : DateOf(t) = d
            /\ \A e \in Days \ {d} :
                  \A t \in Range(temp_folder[e].filas) : DateOf(t) # d
            /\ ultima.estado = "ok"
            /\ ultima.escrito[d].existe
            /\ temp_folder[d].filas = ultima.escrito[d].filas
            /\ ~FinDelDia(MaxOf(ultima.escrito[d].filas))

\* C12's case: after a second run one date has its record and the other,
\* which the run completed, has none.
C12_Witness ==
    /\ runs = MaxRuns
    /\ ultima.estado = "ok"
    /\ \E d, e \in Days :
          /\ temp_folder[d].existe
          /\ ultima.escrito[e].existe
          /\ FinDelDia(MaxOf(ultima.escrito[e].filas))
          /\ ~temp_folder[e].existe

\* The table of date d a returned run left: the day output, or the record
\* when the day is incomplete.
QuedaEn(t, d) ==
    \/ t \in Range(input_folder'[NombreDia(d)].filas)
    \/ t \in Range(temp_folder'[d].filas)

\* C16: after a run returns, every row of every file it consumed is in the
\* table left for the date of its time value (the day output or the
\* record), and in the table of no other date.
C16_FilasConservadas ==
    [][RunOk =>
          \A n \in CsvFiles(Entrada) :
              \A t \in Range(Entrada[n].filas) :
                  /\ QuedaEn(t, DateOf(t))
                  /\ \A e \in Days \ {DateOf(t)} :
                        /\ t \notin Range(ultima'.escrito[e].filas)
                        /\ ~QuedaEn(t, e)]_vars

\* C17: after a run returns, every incomplete date has its rows in its
\* record; without procesar_incompleto no day output of that date is in
\* the folder, with it the day output is there beside the record.
C17_SalidaProvisional ==
    [][RunOk =>
          \A d \in Days :
              (ultima'.escrito[d].existe /\ ~FinDelDia(MaxOf(ultima'.escrito[d].filas)))
              => /\ temp_folder'[d].existe
                 /\ temp_folder'[d].filas = ultima'.escrito[d].filas
                 /\ IF ultima'.pi
                    THEN /\ input_folder'[NombreDia(d)].existe
                         /\ input_folder'[NombreDia(d)].filas = ultima'.escrito[d].filas
                    ELSE ~input_folder'[NombreDia(d)].existe]_vars

(***************************************************************************)
(* C13: the conversion stage (SpecConv).                                   *)
(***************************************************************************)

\* A submitted task is over: its table is written and its source removed,
\* or its failure was reported and its source is in place.
Terminal(f) ==
    \/ csv[f] = "escrito" /\ ~tdms[f] /\ errores[f] = 0
    \/ errores[f] = 1 /\ tdms[f]

\* C13: the stage returns only when every submitted task is over and was
\* collected; the bar advances by one exactly when a finished task is
\* collected, never passes the number of submitted files, and equals it
\* when the stage returns.
C13_BarraYRetorno ==
    [][/\ etapa' = "retorno" =>
            /\ \A f \in Enviados' : pc'[f] = "recogido" /\ Terminal(f)'
            /\ barra' = Cardinality(Enviados')
       /\ barra' <= Cardinality(Enviados')
       /\ barra' = Cardinality({f \in Archivos : pc'[f] = "recogido"})
       /\ barra' \in {barra, barra + 1}
       /\ barra' = barra + 1 =>
            \E f \in Archivos : pc[f] = "fin" /\ pc'[f] = "recogido"]_vars

\* C13's case: the stage returned from MaxArchivos files, some converted
\* and some failed, with the bar at MaxArchivos.
C13_Witness ==
    /\ etapa = "retorno"
    /\ barra = MaxArchivos
    /\ \E f, g \in Archivos :
          /\ errores[f] = 1 /\ tdms[f]
          /\ csv[g] = "escrito" /\ ~tdms[g]

(***************************************************************************)
(* C15: the names of two dates (SpecNombres).                              *)
(***************************************************************************)

\* C15: two dates have the same day table name exactly when they are the
\* same date, and likewise the same exported file name.
C15_NombresInyectivos ==
    nombrado.hecho =>
        LET mismo == nombrado.fechas[1] = nombrado.fechas[2]
        IN  /\ (nombrado.dia[1] = nombrado.dia[2]) <=> mismo
            /\ (nombrado.mat[1] = nombrado.mat[2]) <=> mismo

(***************************************************************************)
(* C21: the pool size main passes to the conversion stage (SpecMain).      *)
(***************************************************************************)

\* C21: for every value of os.cpu_count() from 1 up the pool size that
\* main passes is at least 1, and with files to convert the conversion
\* step of main creates its pool: it does not raise.
C21_PoolPositivo ==
    [][(paso = "convertir" /\ extraidos # {})
       => /\ \A cpus \in Cpus : num_workers(cpus) >= 1
          /\ fallo' # "convertir"]_vars

====
